---- MODULE Spec2Model ----
(***************************************************************************)
(* ERP -> eshop delta synchronisation: the transformer                     *)
(* (integrator/transformer.py), the rate-limited retrying client           *)
(* (integrator/eshop_client.py) and the sync task (integrator/tasks.py).   *)
(*                                                                         *)
(* Spec is the sync task: runs of sync_products_task, one after another,   *)
(* over the ERP file of the moment and the table the earlier runs left.    *)
(* SpecClient is one EshopClient whose send_product is called again and    *)
(* again, with every response the server can give.  SpecLimiter is one     *)
(* RateLimiter whose acquire is called by threads that run side by side,   *)
(* and SpecLimiterFair is the same under a fair scheduler.                 *)
(* SpecTransform is load_and_transform over the ERP files of a bounded set *)
(* and SpecHash is compute_hash over pairs of product dicts.               *)
(*                                                                         *)
(* Time is counted in ticks, TicksPerUnit ticks to one second.  Money is   *)
(* counted in cents.  A JSON value is a record [t, n, s]: its kind, its    *)
(* number (kind "num") and its text (kind "str").  time.monotonic() has no *)
(* defined origin: Spec and SpecClient keep the clock relative to the start *)
(* of the limiter's window, and a window older than one second is kept at  *)
(* one second, which is all that acquire tells apart; SpecLimiter does the *)
(* same and keeps the returns of the last second, tick by tick.            *)
(***************************************************************************)
EXTENDS Integers, Sequences, FiniteSets, TLC

VARIABLES
    store,          \* the ProductSyncState table: a set of rows
    pc,             \* idle, loop, acquire, request, inflight, done, aborted, ready
    products,       \* tasks.py: products of the current run
    idx,            \* 1-based position of the for loop in products
    sent, skipped, errors,
    log,            \* the per-record diagnostics of the run, in order
    calls,          \* the HTTP requests issued in the run
    unchanged_rerun,\* the run reads the data of the run before it, which had no error
    owed,           \* the products whose last send failed, each with the is_new of that send
    base_url,       \* EshopClient._base_url
    tokens,         \* RateLimiter._tokens
    window_start,   \* RateLimiter._window_start, NoWindow for None
    now,            \* time.monotonic()
    payload,        \* send_product: product
    is_new,         \* send_product: is_new
    method, url,    \* send_product: method and url
    attempt,        \* _request_with_retry: attempt
    backoff,        \* _request_with_retry: backoff, in ticks
    requests,       \* the HTTP requests of the send_product call, in order
    acquires,       \* RateLimiter.acquire calls made by the send_product call
    waits,          \* time.sleep calls made by _request_with_retry in the call
    responses,      \* the responses the call received, in order
    outcome,        \* how the last send_product call ended
    _rate,          \* RateLimiter._rate
    lock,           \* RateLimiter._lock: the thread that holds it, NoThread for none
    threads,        \* the threads that call acquire: where each is, and when its sleep ends
    returned,       \* the acquire calls that returned at each tick of the last second
    immediate,      \* the acquire calls that returned without sleeping since the window start
    opened_suspended, \* the window was opened by a caller that had slept
    erp_file,       \* the records of the ERP file, in file order
    record_out,     \* what transform_product made of one record of the file
    result,         \* what load_and_transform made of the file
    hash_in,        \* two product dicts, each a sequence of key-value pairs
    hash_out        \* the digests compute_hash gave for them

taskVars == <<store, products, idx, sent, skipped, errors, log, calls, unchanged_rerun,
               owed>>
limiterVars == <<tokens, window_start, now>>
callVars == <<payload, is_new, method, url, attempt, backoff, requests, acquires,
              waits, responses, outcome>>
threadVars == <<_rate, lock, threads, returned, immediate, opened_suspended>>
transformVars == <<erp_file, record_out, result, hash_in, hash_out>>
vars == <<pc, taskVars, base_url, limiterVars, callVars, threadVars, transformVars>>

\* ------------------------------------------------------------- bounds
TicksPerUnit == 2
MaxLen == 3
MaxLatency == 1
MaxRate == 5
MaxThreads == 3
MaxFairRate == 2
MaxFairThreads == 2

\* ------------------------------------------------- program constants
MAX_RETRIES == 3
RATE_LIMIT == 5
VAT_PERCENT == 21

\* ------------------------------------------------------- JSON values
Null == [t |-> "null", n |-> 0, s |-> ""]
Num(n) == [t |-> "num", n |-> n, s |-> ""]
Str(s) == [t |-> "str", n |-> 0, s |-> s]

\* ------------------------------------------------------- transformer
Skus == {"A", "B", "C"}

\* The product of a record that yields none (a placeholder, never sent).
NoProduct == [sku |-> "", title |-> "", price |-> 0, stock |-> 0, color |-> Null]

\* Python's truth value of a JSON value, as `x or default` tests it.  A
\* container of another kind ("list", "map") stands for a non-empty one.
Truthy(v) ==
    CASE v.t = "null" -> FALSE
      [] v.t = "num" -> v.n # 0
      [] v.t = "str" -> v.s # ""
      [] OTHER -> TRUE

\* int(text) for the texts of the model: digits parse, anything else raises
\* ValueError.
IntOfText(s) ==
    CASE s = "7" -> [ok |-> TRUE, n |-> 7]
      [] s = "-3" -> [ok |-> TRUE, n |-> -3]
      [] OTHER -> [ok |-> FALSE, n |-> 0]

_parse_stock_value(value) ==
    CASE value.t = "num" -> value.n
      [] value.t = "str" -> IF IntOfText(value.s).ok THEN IntOfText(value.s).n ELSE 0
      [] OTHER -> 0

RECURSIVE SumStocks(_)
SumStocks(vals) ==
    IF vals = <<>> THEN 0
    ELSE _parse_stock_value(Head(vals)) + SumStocks(Tail(vals))

\* round(x, 2) of x = cents * (100 + VAT_PERCENT) / 100 cents: to the nearest
\* cent, ties to the even cent.
RoundVat(cents) ==
    LET x == cents * (100 + VAT_PERCENT)
        q == x \div 100
        r == x % 100
    IN  IF r * 2 < 100 THEN q
        ELSE IF r * 2 > 100 THEN q + 1
        ELSE IF q % 2 = 0 THEN q ELSE q + 1

\* transform_product: kind "ok" with the product, "none" for a dropped record,
\* "raise" when an exception leaves the function.
transform_product(raw) ==
    LET price_excl == raw.price_vat_excl
        stocks == raw.stocks
        attributes == raw.attributes
        color == IF attributes.t = "map" /\ Truthy(attributes.color)
                 THEN attributes.color ELSE Str("N/A")
    IN  IF price_excl.t = "null" THEN [kind |-> "none", product |-> NoProduct]
        ELSE IF price_excl.t # "num" THEN [kind |-> "raise", product |-> NoProduct]
        ELSE IF price_excl.n < 0 THEN [kind |-> "none", product |-> NoProduct]
        ELSE IF Truthy(stocks) /\ stocks.t # "map" THEN [kind |-> "raise", product |-> NoProduct]
        ELSE IF Truthy(attributes) /\ attributes.t # "map" THEN [kind |-> "raise", product |-> NoProduct]
        ELSE [kind |-> "ok",
              product |-> [sku |-> raw.id,
                           title |-> raw.title,
                           price |-> RoundVat(price_excl.n),
                           stock |-> IF stocks.t = "map" THEN SumStocks(stocks.vals) ELSE 0,
                           color |-> color]]

\* A deduplication that remembers the ids of the records with a usable price
\* only.
RECURSIVE DedupValidOnly(_, _)
DedupValidOnly(raw_list, seen_skus) ==
    IF raw_list = <<>> THEN <<>>
    ELSE IF Head(raw_list).id \in seen_skus THEN DedupValidOnly(Tail(raw_list), seen_skus)
    ELSE <<Head(raw_list)>> \o
         DedupValidOnly(Tail(raw_list),
                        IF transform_product(Head(raw_list)).kind = "ok"
                        THEN seen_skus \cup {Head(raw_list).id} ELSE seen_skus)

\* load_erp_data: the records of the file whose id was not seen before, in
\* first-seen order.
RECURSIVE Dedup(_, _)
Dedup(raw_list, seen_skus) ==
    IF raw_list = <<>> THEN <<>>
    ELSE IF Head(raw_list).id \in seen_skus THEN Dedup(Tail(raw_list), seen_skus)
    ELSE <<Head(raw_list)>> \o Dedup(Tail(raw_list), seen_skus \cup {Head(raw_list).id})

load_erp_data(raw_list) == Dedup(raw_list, {})

\* load_and_transform: [raised, result]; an exception of transform_product
\* leaves the function, as nothing in it catches one.
RECURSIVE TransformAll(_)
TransformAll(raw_products) ==
    IF raw_products = <<>> THEN [raised |-> FALSE, result |-> <<>>]
    ELSE LET transformed == transform_product(Head(raw_products))
             rest == TransformAll(Tail(raw_products))
         IN  IF transformed.kind = "raise" \/ rest.raised
             THEN [raised |-> TRUE, result |-> <<>>]
             ELSE IF transformed.kind = "ok"
             THEN [raised |-> FALSE, result |-> <<transformed.product>> \o rest.result]
             ELSE rest

load_and_transform(raw_list) == TransformAll(load_erp_data(raw_list))

\* transformer.py 59-65: the dict of a product, a sequence of key-value pairs
\* in the order the dict literal inserts them.
Items(product) ==
    <<<<"sku", Str(product.sku)>>, <<"title", Str(product.title)>>,
      <<"price", Num(product.price)>>, <<"stock", Num(product.stock)>>,
      <<"color", product.color>>>>

\* The place of a key of the product dict among its keys in sorted order.
KeyRank(key) ==
    CASE key = "color" -> 1
      [] key = "price" -> 2
      [] key = "sku" -> 3
      [] key = "stock" -> 4
      [] key = "title" -> 5

InsertByKey(pair, sorted) ==
    SelectSeq(sorted, LAMBDA other : KeyRank(other[1]) < KeyRank(pair[1]))
        \o <<pair>>
        \o SelectSeq(sorted, LAMBDA other : KeyRank(other[1]) >= KeyRank(pair[1]))

RECURSIVE SortKeys(_)
SortKeys(items) ==
    IF Len(items) = 0 THEN <<>> ELSE InsertByKey(Head(items), SortKeys(Tail(items)))

\* A serialisation that writes the pairs in the order of the dict.
JsonDumpsInsertionOrder(items) == items

\* json.dumps(product, sort_keys=True, ...): the text, the pairs of the dict
\* in the order of their keys.
json_dumps(items) == SortKeys(items)

\* hashlib.sha256(...).hexdigest(): the digest stands for the text it is taken
\* of; two texts have one digest when they are one text.
sha256(text) == [digest_of |-> text]

\* compute_hash of a dict.
HashOfDict(items) == sha256(json_dumps(items))

\* compute_hash of a product as transform_product builds it.
compute_hash(product) == HashOfDict(Items(product))

\* ------------------------------------------------------ rate limiter
NoWindow == -1

\* RateLimiter.acquire by a single caller at time t: the limiter's state when
\* the call returns and the time the call slept.
acquire(t, ws, tk, rate) ==
    LET fresh == ws = NoWindow \/ (t - ws) >= TicksPerUnit
        ws1 == IF fresh THEN t ELSE ws
        tk1 == IF fresh THEN rate ELSE tk
        wait == TicksPerUnit - (t - ws1)
        slept == IF wait > 0 THEN wait ELSE 0
    IN  IF tk1 > 0
        THEN [window_start |-> ws1, tokens |-> tk1 - 1, slept |-> 0]
        ELSE [window_start |-> t + slept, tokens |-> rate - 1, slept |-> slept]

\* No thread holds the lock.
NoThread == 0

\* A lock that lets every thread in.
LockFreeAlways(holder) == TRUE

\* eshop_client.py 33: `with self._lock` lets a thread in when no thread holds
\* the lock.
LockFree(holder) == holder = NoThread

\* A test that lets a call through on an empty window.
AcquireCheckGrantsAtZero(t, ws, tk, r) ==
    LET fresh == ws = NoWindow \/ (t - ws) >= TicksPerUnit
        ws1 == IF fresh THEN t ELSE ws
        tk1 == IF fresh THEN r ELSE tk
    IN  [fresh |-> fresh, window_start |-> ws1, tokens |-> tk1, granted |-> tk1 >= 0,
         wait |-> TicksPerUnit - (t - ws1)]

\* A window that is old one tick before its second is over.
AcquireCheckEarlyExpiry(t, ws, tk, r) ==
    LET fresh == ws = NoWindow \/ (t - ws) >= TicksPerUnit - 1
        ws1 == IF fresh THEN t ELSE ws
        tk1 == IF fresh THEN r ELSE tk
    IN  [fresh |-> fresh, window_start |-> ws1, tokens |-> tk1, granted |-> tk1 > 0,
         wait |-> TicksPerUnit - (t - ws1)]

\* A window that never grows old.
AcquireCheckNoExpiry(t, ws, tk, r) ==
    LET fresh == ws = NoWindow
        ws1 == IF fresh THEN t ELSE ws
        tk1 == IF fresh THEN r ELSE tk
    IN  [fresh |-> fresh, window_start |-> ws1, tokens |-> tk1, granted |-> tk1 > 0,
         wait |-> TicksPerUnit - (t - ws1)]

\* eshop_client.py 34-44: acquire at time t, up to the test of the tokens: the
\* window is opened anew when there is none or it is one second old, and the
\* call is granted a token or has to wait for the rest of the second.
AcquireCheck(t, ws, tk, r) ==
    LET fresh == ws = NoWindow \/ (t - ws) >= TicksPerUnit
        ws1 == IF fresh THEN t ELSE ws
        tk1 == IF fresh THEN r ELSE tk
    IN  [fresh |-> fresh, window_start |-> ws1, tokens |-> tk1, granted |-> tk1 > 0,
         wait |-> TicksPerUnit - (t - ws1)]

\* A new window that holds every token.
AcquireReopenFull(t, r) == [window_start |-> t, tokens |-> r]

\* eshop_client.py 48-49: after the sleep the window starts at the time t of
\* the clock and the caller has its token already.
AcquireReopen(t, r) == [window_start |-> t, tokens |-> r - 1]

\* ------------------------------------------------------------ client
\* A strip that takes one trailing separator at most.
RstripOneSlash(text) ==
    IF text # <<>> /\ text[Len(text)] = "/" THEN SubSeq(text, 1, Len(text) - 1) ELSE text

\* A text is a sequence of pieces; "/" is the separator.  str.rstrip('/')
\* takes every trailing separator.
RECURSIVE RstripSlash(_)
RstripSlash(text) ==
    IF text # <<>> /\ text[Len(text)] = "/"
    THEN RstripSlash(SubSeq(text, 1, Len(text) - 1))
    ELSE text

\* send_product: the method and the url of a call.
\* A client that creates whatever it is told.
MethodAlwaysPost(new) == "POST"

Method(new) == IF new THEN "POST" ELSE "PATCH"

Url(base, new, sku) ==
    IF new THEN base \o <<"/", "products", "/">>
    ELSE base \o <<"/", "products", "/", sku, "/">>

\* float(text) for the header texts of the model, in ticks.
FloatOfText(s) ==
    CASE s = "0" -> [ok |-> TRUE, v |-> 0]
      [] s = "3" -> [ok |-> TRUE, v |-> 3 * TicksPerUnit]
      [] s = "-1" -> [ok |-> TRUE, v |-> 0 - TicksPerUnit]
      [] OTHER -> [ok |-> FALSE, v |-> 0]

\* A parse that finds no header, whatever the response carries.
ParseRetryAfterIgnored(header) == [some |-> FALSE, v |-> 0]

\* _parse_retry_after: [some, v]; some is FALSE for None.
_parse_retry_after(header) ==
    IF header.t = "null" THEN [some |-> FALSE, v |-> 0]
    ELSE IF FloatOfText(header.s).ok THEN [some |-> TRUE, v |-> FloatOfText(header.s).v]
    ELSE [some |-> FALSE, v |-> 0]

\* Response.raise_for_status raises HTTPError.
raise_for_status(status) == 400 <= status /\ status < 600

InitialBackoff == 1 * TicksPerUnit

\* A backoff that stays what it is.
NextBackoffSame(b) == b

\* eshop_client.py 85: backoff *= 2.
NextBackoff(b) == b * 2

\* The clock and the window start, moved to the origin the state keeps.
Rebase(t, ws) ==
    IF ws = NoWindow THEN [now |-> 0, window_start |-> NoWindow]
    ELSE [now |-> IF t - ws >= TicksPerUnit THEN TicksPerUnit ELSE t - ws,
          window_start |-> 0]

\* A test that takes every status from 429 on for throttling.
ThrottledFrom429(status) == status >= 429

\* eshop_client.py 77: the response is a 429.
Throttled(status) == status = 429

\* A retry loop whose backoff grows only when the backoff was slept.
AfterResponseHeaderKeepsBackoff(att, bo, status, header) ==
    IF Throttled(status)
    THEN LET retry_after == _parse_retry_after(header)
             wait == IF retry_after.some THEN retry_after.v ELSE bo
             next == IF retry_after.some THEN bo ELSE NextBackoff(bo)
         IN  IF wait < 0
             THEN [kind |-> "ValueError", slept |-> FALSE, wait |-> 0, backoff |-> bo]
             ELSE IF att < MAX_RETRIES
             THEN [kind |-> "retry", slept |-> TRUE, wait |-> wait, backoff |-> next]
             ELSE [kind |-> "RuntimeError", slept |-> TRUE, wait |-> wait, backoff |-> next]
    ELSE IF raise_for_status(status)
    THEN [kind |-> "HttpError", slept |-> FALSE, wait |-> 0, backoff |-> bo]
    ELSE [kind |-> "return", slept |-> FALSE, wait |-> 0, backoff |-> bo]

\* _request_with_retry, from the response of an attempt on: what the call does
\* next.  kind "retry" goes to the next attempt, "return" returns the response,
\* the other kinds name the exception that leaves the call.  time.sleep raises
\* ValueError for a negative length.
AfterResponse(att, bo, status, header) ==
    IF Throttled(status)
    THEN LET retry_after == _parse_retry_after(header)
             wait == IF retry_after.some THEN retry_after.v ELSE bo
         IN  IF wait < 0
             THEN [kind |-> "ValueError", slept |-> FALSE, wait |-> 0, backoff |-> bo]
             ELSE IF att < MAX_RETRIES
             THEN [kind |-> "retry", slept |-> TRUE, wait |-> wait, backoff |-> NextBackoff(bo)]
             ELSE [kind |-> "RuntimeError", slept |-> TRUE, wait |-> wait,
                   backoff |-> NextBackoff(bo)]
    ELSE IF raise_for_status(status)
    THEN [kind |-> "HttpError", slept |-> FALSE, wait |-> 0, backoff |-> bo]
    ELSE [kind |-> "return", slept |-> FALSE, wait |-> 0, backoff |-> bo]

\* --------------------------------------------------------- sync task
\* ProductSyncState.objects.get(sku=sku): the rows of the sku, none for
\* DoesNotExist.
Get(table, sku) == {row \in table : row.sku = sku}

\* A comparison that never finds the record unchanged.
UnchangedNever(state, new_hash) == FALSE

\* tasks.py 45: the record is skipped.
Unchanged(state, new_hash) ==
    state # {} /\ \A row \in state : row.content_hash = new_hash

\* A save that leaves the fingerprint of an existing row as it was.
SaveStateStaleHash(table, sku, new_hash, new) ==
    IF Get(table, sku) = {}
    THEN table \cup {[sku |-> sku, content_hash |-> new_hash, synced_as_new |-> new]}
    ELSE {IF row.sku = sku THEN [row EXCEPT !.synced_as_new = new] ELSE row : row \in table}

\* A save that leaves synced_as_new at the default of the column.
SaveStateDefaultFlag(table, sku, new_hash, new) ==
    (table \ Get(table, sku))
        \cup {[sku |-> sku, content_hash |-> new_hash, synced_as_new |-> TRUE]}

\* tasks.py 52-56: the row of the sku is created or overwritten.
SaveState(table, sku, new_hash, new) ==
    (table \ Get(table, sku))
        \cup {[sku |-> sku, content_hash |-> new_hash, synced_as_new |-> new]}

\* A task that saves the row whatever the call did.
StoreAfterSendAlways(table, kind, sku, new_hash, new) ==
    (table \ {row \in table : row.sku = sku})
        \cup {[sku |-> sku, content_hash |-> new_hash, synced_as_new |-> new]}

\* A task that keeps its writes for the end of the run.
StoreAfterSendDeferred(table, kind, sku, new_hash, new) == table

\* tasks.py 50-62: the table after the send_product call ended.
StoreAfterSend(table, kind, sku, new_hash, new) ==
    IF kind = "return" THEN SaveState(table, sku, new_hash, new) ELSE table

\* ------------------------------------------------------------ inputs
Attrs(color) == [t |-> "map", n |-> 0, s |-> "", color |-> color]
Stocks(vals) == [t |-> "map", n |-> 0, s |-> "", vals |-> vals]
Raw(id, price) ==
    [id |-> id, title |-> "T", price_vat_excl |-> price,
     stocks |-> Stocks(<<Num(5), Str("x")>>), attributes |-> Attrs(Str("red"))]

\* The records an ERP file of the task model holds: one price for every sku,
\* and for sku A a second price, a null price and a price that is a text.
RawRecords ==
    {Raw(id, Num(10000)) : id \in Skus}
        \cup {Raw("A", Num(20000)), Raw("A", Null), Raw("A", Str("abc"))}

ErpFiles == UNION {[1..n -> RawRecords] : n \in 0..MaxLen}

\* What load_and_transform makes of the files.
Loaded == {load_and_transform(raw_list) : raw_list \in ErpFiles}

BaseUrlSettings == {<<"api">>, <<"api", "/">>, <<"api", "/", "/">>}

\* What EshopClient.__init__ makes of the settings.
ClientBaseUrls == {RstripSlash(setting) : setting \in BaseUrlSettings}

Statuses == {200, 404, 429, 500}
RetryAfterHeaders == {Null, Str("0"), Str("3"), Str("-1"), Str("abc")}

\* A response is its status code and its Retry-After header (Null: none).  In
\* the model only a 429 response carries the header.
Response(status, header) == [status |-> status, retry_after |-> header]

ServerResponses ==
    {Response(status, header) : status \in Statuses \ {429}, header \in {Null}}
        \cup {Response(429, header) : header \in RetryAfterHeaders}

\* The responses of the task model.
TaskResponses ==
    {resp \in ServerResponses :
        resp.status # 404 /\ resp.retry_after \in {Null, Str("-1")}}

\* The products send_product is called with in the client model.
ClientProducts ==
    {transform_product(raw).product : raw \in {Raw("A", Num(10000)), Raw("B", Num(20000))}}

\* The records of the transformer model: for sku A a valid, a missing and a
\* negative price, each with location quantities that hold a text that is no
\* number, that are negative, or that are missing; for sku B a valid and a
\* missing price.
TransformRecords ==
    {[Raw("A", price) EXCEPT !.stocks = stocks] :
        price \in {Num(10000), Null, Num(0 - 100)},
        stocks \in {Stocks(<<Num(5), Str("x")>>), Stocks(<<Num(0 - 3), Str("-3"), Num(5)>>),
                    Null}}
        \cup {Raw("B", Num(10000)), Raw("B", Null)}

TransformFiles == UNION {[1..n -> TransformRecords] : n \in 0..MaxLen}

\* The products of the hash model: one product and, for each of its fields,
\* the product with another value of that field.
HashProducts ==
    LET product == transform_product(Raw("A", Num(10000))).product
    IN  {product,
         [product EXCEPT !.sku = "B"],
         [product EXCEPT !.title = "U"],
         [product EXCEPT !.price = 24200],
         [product EXCEPT !.stock = 6],
         [product EXCEPT !.color = Str("N/A")]}

\* Orders in which a dict of five keys can have been filled.
InsertionOrders == {<<1, 2, 3, 4, 5>>, <<5, 4, 3, 2, 1>>, <<3, 1, 5, 2, 4>>}

Reorder(items, order) == [k \in 1..Len(items) |-> items[order[k]]]

HashDicts == {Reorder(Items(product), order) : product \in HashProducts, order \in InsertionOrders}

\* ------------------------------------------------------------- state
\* No thread calls the limiter.
NoThreads ==
    /\ _rate = RATE_LIMIT
    /\ lock = NoThread
    /\ threads = <<>>
    /\ returned = <<>>
    /\ immediate = 0
    /\ opened_suspended = FALSE

\* No file was read and no product hashed.
NoTransform ==
    /\ erp_file = <<>>
    /\ record_out = <<>>
    /\ result = <<>>
    /\ hash_in = <<>>
    /\ hash_out = <<>>

\* An empty table, no run yet and no call yet.
Unrun ==
    /\ store = {}
    /\ products = <<>>
    /\ idx = 1
    /\ sent = 0 /\ skipped = 0 /\ errors = 0
    /\ log = <<>>
    /\ calls = {}
    /\ unchanged_rerun = FALSE
    /\ owed = {}
    /\ payload = NoProduct
    /\ is_new = FALSE
    /\ method = "" /\ url = <<>>
    /\ attempt = 0
    /\ backoff = InitialBackoff
    /\ requests = <<>>
    /\ acquires = 0
    /\ waits = <<>>
    /\ responses = <<>>
    /\ outcome = "none"

\* An empty table, no run yet, a limiter as constructed and no call yet.
Fresh ==
    /\ Unrun
    /\ tokens = RATE_LIMIT
    /\ window_start = NoWindow
    /\ now = 0
    /\ NoThreads
    /\ NoTransform

\* The task was never run and has no client yet.
Init ==
    /\ pc = "idle"
    /\ base_url = <<>>
    /\ Fresh

\* No send_product call was made yet.
NoCall ==
    /\ payload' = NoProduct
    /\ is_new' = FALSE
    /\ method' = "" /\ url' = <<>>
    /\ attempt' = 0
    /\ backoff' = InitialBackoff
    /\ requests' = <<>>
    /\ acquires' = 0
    /\ waits' = <<>>
    /\ responses' = <<>>
    /\ outcome' = "none"

\* No client was constructed.
NoClient ==
    /\ base_url' = <<>>
    /\ tokens' = RATE_LIMIT
    /\ window_start' = NoWindow
    /\ now' = 0

\* EshopClient.__init__: the base url and a limiter with a full first window.
NewClient(base) ==
    /\ base_url' = base
    /\ tokens' = RATE_LIMIT
    /\ window_start' = NoWindow
    /\ now' = 0

\* send_product up to the first attempt: the method, the url and the locals
\* of _request_with_retry.
BeginSend(product, new) ==
    /\ payload' = product
    /\ is_new' = new
    /\ method' = Method(new)
    /\ url' = Url(base_url, new, product.sku)
    /\ backoff' = InitialBackoff
    /\ attempt' = 1
    /\ requests' = <<>>
    /\ acquires' = 0
    /\ waits' = <<>>
    /\ responses' = <<>>
    /\ outcome' = "pending"

\* The clock after `elapsed` more ticks.
Elapse(elapsed) ==
    /\ now' = Rebase(now + elapsed, window_start).now
    /\ UNCHANGED <<tokens, window_start>>

\* _request_with_retry from the response of the attempt on, for the call's
\* own state.
Receive(resp, latency) ==
    LET r == AfterResponse(attempt, backoff, resp.status, resp.retry_after)
    IN  /\ responses' = Append(responses, resp)
        /\ Elapse(latency + r.wait)
        /\ waits' = IF r.slept THEN Append(waits, r.wait) ELSE waits
        /\ backoff' = r.backoff
        /\ attempt' = IF r.kind = "retry" THEN attempt + 1 ELSE attempt
        /\ outcome' = IF r.kind = "retry" THEN outcome ELSE r.kind
        /\ UNCHANGED <<payload, is_new, method, url, requests, acquires>>

\* A loop that a failed record ends.
NextIdxAbort(i, kind) == IF kind = "return" THEN i + 1 ELSE Len(products) + 1

\* A loop in which a failed record takes the record after it along.
NextIdxSkipsOne(i, kind) == IF kind = "return" THEN i + 1 ELSE i + 2

\* tasks.py 33 and 60-62: the for loop goes on to the next record, whatever
\* the send_product call did.
NextIdx(i, kind) == i + 1

\* ------------------------------------------------------ task actions
\* tasks.py 25-31: the task starts, loads the file and builds its client.  An
\* exception of load_and_transform leaves the task.
StartRun ==
    /\ pc \in {"idle", "done", "aborted"}
    /\ \E loaded \in Loaded, base \in ClientBaseUrls :
        /\ pc' = IF loaded.raised THEN "aborted" ELSE "loop"
        /\ products' = loaded.result
        /\ unchanged_rerun' =
               (/\ pc = "done" /\ errors = 0
                /\ ~loaded.raised /\ loaded.result = products)
        /\ owed' = IF loaded.raised THEN owed
                   ELSE {o \in owed : \E k \in 1..Len(loaded.result) :
                                          loaded.result[k] = o.product}
        /\ IF loaded.raised THEN NoClient ELSE NewClient(base)
    /\ idx' = 1
    /\ sent' = 0 /\ skipped' = 0 /\ errors' = 0
    /\ log' = <<>>
    /\ calls' = {}
    /\ NoCall
    /\ UNCHANGED <<store, threadVars, transformVars>>

\* tasks.py 33-50 and eshop_client.py 59-72: the next record is looked up and
\* either skipped or handed to send_product.
ProcessRecord ==
    /\ pc = "loop"
    /\ idx <= Len(products)
    /\ LET product == products[idx]
           sku == product.sku
           new_hash == compute_hash(product)
           state == Get(store, sku)
       IN  IF Unchanged(state, new_hash)
           THEN /\ skipped' = skipped + 1
                /\ idx' = idx + 1
                /\ log' = Append(log, [sku |-> sku, what |-> "skipped", is_new |-> FALSE])
                /\ owed' = {o \in owed : o.product.sku # sku}
                /\ UNCHANGED <<pc, callVars>>
           ELSE /\ BeginSend(product, state = {})
                /\ pc' = "acquire"
                /\ UNCHANGED <<skipped, idx, log, owed>>
    /\ UNCHANGED <<store, products, sent, errors, calls, unchanged_rerun, base_url,
                   limiterVars, threadVars, transformVars>>

\* A call that asks the limiter before its first attempt only.
AcquireFirstAttemptOnly ==
    /\ pc = "acquire"
    /\ IF attempt = 1
       THEN LET a == acquire(now, window_start, tokens, RATE_LIMIT)
                c == Rebase(now + a.slept, a.window_start)
            IN  /\ window_start' = c.window_start
                /\ tokens' = a.tokens
                /\ now' = c.now
                /\ acquires' = acquires + 1
       ELSE UNCHANGED <<limiterVars, acquires>>
    /\ pc' = "request"
    /\ UNCHANGED <<taskVars, base_url, payload, is_new, method, url, attempt,
                   backoff, requests, waits, responses, outcome, threadVars,
                   transformVars>>

\* eshop_client.py 74: the limiter lets the attempt through, after sleeping
\* when the window is spent.
Acquire ==
    /\ pc = "acquire"
    /\ LET a == acquire(now, window_start, tokens, RATE_LIMIT)
           c == Rebase(now + a.slept, a.window_start)
       IN  /\ window_start' = c.window_start
           /\ tokens' = a.tokens
           /\ now' = c.now
    /\ acquires' = acquires + 1
    /\ pc' = "request"
    /\ UNCHANGED <<taskVars, base_url, payload, is_new, method, url, attempt,
                   backoff, requests, waits, responses, outcome, threadVars,
                   transformVars>>

\* eshop_client.py 75: the request of the attempt goes out.
Request ==
    /\ pc = "request"
    /\ requests' = Append(requests, [method |-> method, url |-> url, json |-> payload])
    /\ calls' = calls \cup {[method |-> method, url |-> url, sku |-> payload.sku]}
    /\ pc' = "inflight"
    /\ UNCHANGED <<store, products, idx, sent, skipped, errors, log, unchanged_rerun,
                   owed, base_url, limiterVars, payload, is_new, method, url, attempt,
                   backoff, acquires, waits, responses, outcome, threadVars,
                   transformVars>>

\* eshop_client.py 75-93 and tasks.py 50-62: the response arrives; the call
\* sleeps and retries, or ends, and then the task saves the row and counts the
\* record.
Respond ==
    /\ pc = "inflight"
    /\ \E resp \in TaskResponses, latency \in 0..MaxLatency :
        LET r == AfterResponse(attempt, backoff, resp.status, resp.retry_after)
            sku == payload.sku
        IN  /\ Receive(resp, latency)
            /\ IF r.kind = "retry"
               THEN /\ pc' = "acquire"
                    /\ UNCHANGED <<store, idx, sent, errors, log, owed>>
               ELSE /\ store' = StoreAfterSend(store, r.kind, sku,
                                               compute_hash(payload), is_new)
                    /\ sent' = IF r.kind = "return" THEN sent + 1 ELSE sent
                    /\ errors' = IF r.kind = "return" THEN errors ELSE errors + 1
                    /\ log' = Append(log, [sku |-> sku, what |-> r.kind, is_new |-> is_new])
                    /\ owed' = {o \in owed : o.product.sku # sku}
                                \cup (IF r.kind = "return" THEN {}
                                      ELSE {[product |-> payload, is_new |-> is_new]})
                    /\ idx' = NextIdx(idx, r.kind)
                    /\ pc' = "loop"
    /\ UNCHANGED <<products, skipped, calls, unchanged_rerun, base_url, threadVars,
                   transformVars>>

\* tasks.py 64-68: the loop is over and the task returns its summary, the
\* counters.
FinishRun ==
    /\ pc = "loop"
    /\ idx > Len(products)
    /\ pc' = "done"
    /\ UNCHANGED <<taskVars, base_url, limiterVars, callVars, threadVars, transformVars>>

Next == StartRun \/ ProcessRecord \/ Acquire \/ Request \/ Respond \/ FinishRun

Spec == Init /\ [][Next]_vars

\* ---------------------------------------------------- client actions
\* A client as constructed, before its first send_product call.
InitClient ==
    /\ pc = "ready"
    /\ base_url \in ClientBaseUrls
    /\ Fresh

\* eshop_client.py 59-72: a caller calls send_product.
SendProduct ==
    /\ pc = "ready"
    /\ \E product \in ClientProducts, new \in BOOLEAN : BeginSend(product, new)
    /\ pc' = "acquire"
    /\ UNCHANGED <<taskVars, base_url, limiterVars, threadVars, transformVars>>

\* eshop_client.py 75-93: the response arrives; the call sleeps and retries,
\* returns the response or raises.
Reply ==
    /\ pc = "inflight"
    /\ \E resp \in ServerResponses, latency \in 0..MaxLatency :
        /\ Receive(resp, latency)
        /\ pc' = IF AfterResponse(attempt, backoff, resp.status, resp.retry_after).kind = "retry"
                 THEN "acquire" ELSE "ready"
    /\ UNCHANGED <<taskVars, base_url, threadVars, transformVars>>

\* Time passes between two calls.
Pause ==
    /\ pc = "ready"
    /\ window_start # NoWindow
    /\ now < TicksPerUnit
    /\ Elapse(1)
    /\ UNCHANGED <<pc, taskVars, base_url, callVars, threadVars, transformVars>>

NextClient == SendProduct \/ Acquire \/ Request \/ Reply \/ Pause

SpecClient == InitClient /\ [][NextClient]_vars

\* --------------------------------------------------- limiter actions
\* RateLimiter.__init__ (eshop_client.py 26-30) with a rate of the model, and
\* the threads that will call acquire.
InitLimiter ==
    /\ pc = "threads"
    /\ base_url = <<>>
    /\ Unrun
    /\ _rate \in 1..MaxRate
    /\ tokens = _rate
    /\ window_start = NoWindow
    /\ now = 0
    /\ lock = NoThread
    /\ \E n \in 1..MaxThreads : threads = [t \in 1..n |-> [pc |-> "idle", wake_at |-> 0]]
    /\ returned = [ago \in 1..TicksPerUnit |-> 0]
    /\ immediate = 0
    /\ opened_suspended = FALSE
    /\ NoTransform

\* What no step of a thread changes.
outsideLimiter == <<pc, taskVars, base_url, callVars, _rate, transformVars>>

\* The thread t is at `to`, its sleep ending at `wake`.
MoveThread(t, to, wake) == threads' = [threads EXCEPT ![t] = [pc |-> to, wake_at |-> wake]]

\* The acquire call of the thread returns at the tick of the clock.
Return == returned' = [returned EXCEPT ![1] = @ + 1]

\* A thread calls acquire and comes to `with self._lock`.
CallAcquire ==
    \E t \in DOMAIN threads :
        /\ threads[t].pc = "idle"
        /\ MoveThread(t, "blocked", 0)
        /\ UNCHANGED <<limiterVars, lock, returned, immediate, opened_suspended,
                       outsideLimiter>>

\* eshop_client.py 33: the thread takes the lock.
TakeLock ==
    \E t \in DOMAIN threads :
        /\ threads[t].pc = "blocked"
        /\ LockFree(lock)
        /\ lock' = t
        /\ MoveThread(t, "locked", 0)
        /\ UNCHANGED <<limiterVars, returned, immediate, opened_suspended, outsideLimiter>>

\* eshop_client.py 34-47: the thread reads the clock, opens the window anew
\* when it is due and tests the tokens; with none left it goes to sleep for
\* the rest of the second, the lock still its own.
CheckWindow ==
    \E t \in DOMAIN threads :
        /\ threads[t].pc = "locked"
        /\ LET c == AcquireCheck(now, window_start, tokens, _rate)
               clock == Rebase(now, c.window_start)
           IN  /\ window_start' = clock.window_start
               /\ now' = clock.now
               /\ tokens' = c.tokens
               /\ immediate' = IF c.fresh THEN 0 ELSE immediate
               /\ opened_suspended' = IF c.fresh THEN FALSE ELSE opened_suspended
               /\ IF c.granted
                  THEN MoveThread(t, "spend", 0)
                  ELSE MoveThread(t, "sleeping",
                                  clock.now + (IF c.wait > 0 THEN c.wait ELSE 0))
        /\ UNCHANGED <<lock, returned, outsideLimiter>>

\* eshop_client.py 41-42: the thread takes its token, leaves the lock and
\* returns.
SpendToken ==
    \E t \in DOMAIN threads :
        /\ threads[t].pc = "spend"
        /\ tokens' = tokens - 1
        /\ lock' = IF lock = t THEN NoThread ELSE lock
        /\ MoveThread(t, "idle", 0)
        /\ Return
        /\ immediate' = immediate + 1
        /\ UNCHANGED <<window_start, now, opened_suspended, outsideLimiter>>

\* A caller that wakes, reopens the window and returns with the lock still
\* its own.
WakeKeepsLock ==
    \E t \in DOMAIN threads :
        /\ threads[t].pc = "sleeping"
        /\ now >= threads[t].wake_at
        /\ LET o == AcquireReopen(now, _rate)
               clock == Rebase(now, o.window_start)
           IN  /\ window_start' = clock.window_start
               /\ now' = clock.now
               /\ tokens' = o.tokens
        /\ MoveThread(t, "idle", 0)
        /\ Return
        /\ immediate' = 0
        /\ opened_suspended' = TRUE
        /\ UNCHANGED <<lock, outsideLimiter>>

\* eshop_client.py 47-49: the sleep is over, at its time or later; the thread
\* starts the window at the clock's time, keeps one token for itself, leaves
\* the lock and returns.
WakeAndReopen ==
    \E t \in DOMAIN threads :
        /\ threads[t].pc = "sleeping"
        /\ now >= threads[t].wake_at
        /\ LET o == AcquireReopen(now, _rate)
               clock == Rebase(now, o.window_start)
           IN  /\ window_start' = clock.window_start
               /\ now' = clock.now
               /\ tokens' = o.tokens
        /\ lock' = IF lock = t THEN NoThread ELSE lock
        /\ MoveThread(t, "idle", 0)
        /\ Return
        /\ immediate' = 0
        /\ opened_suspended' = TRUE
        /\ UNCHANGED outsideLimiter

\* A clock that refills the tokens when the window is one second old.
TickProactiveReset ==
    /\ now' = Rebase(now + 1, window_start).now
    /\ returned' = <<0>> \o SubSeq(returned, 1, TicksPerUnit - 1)
    /\ tokens' = IF window_start # NoWindow /\ now' - window_start >= TicksPerUnit
                 THEN _rate ELSE tokens
    /\ UNCHANGED <<window_start, lock, threads, immediate, opened_suspended,
                   outsideLimiter>>

\* The clock goes on by one tick.
Tick ==
    /\ now' = Rebase(now + 1, window_start).now
    /\ returned' = <<0>> \o SubSeq(returned, 1, TicksPerUnit - 1)
    /\ UNCHANGED <<tokens, window_start, lock, threads, immediate, opened_suspended,
                   outsideLimiter>>

NextLimiter == CallAcquire \/ TakeLock \/ CheckWindow \/ SpendToken \/ WakeAndReopen \/ Tick

SpecLimiter == InitLimiter /\ [][NextLimiter]_vars

\* The step of NextLimiter that takes the thread t on from one of the
\* places `from`.
ThreadStep(t, from) ==
    /\ t \in DOMAIN threads
    /\ threads[t].pc \in from
    /\ NextLimiter
    /\ threads'[t] # threads[t]

\* A fair scheduler: a thread that waits for the lock gets it when the lock is
\* free again and again, and a thread that holds the lock goes on; a sleep
\* ends when its time has come.
FairThread(t) ==
    /\ SF_vars(ThreadStep(t, {"blocked"}))
    /\ WF_vars(ThreadStep(t, {"locked", "spend", "sleeping"}))

\* The limiters and the threads of the model with a fair scheduler.
InitLimiterFair ==
    /\ InitLimiter
    /\ _rate <= MaxFairRate
    /\ Len(threads) <= MaxFairThreads

\* The limiter with a fair scheduler and a clock that goes on.
SpecLimiterFair ==
    /\ InitLimiterFair
    /\ [][NextLimiter]_vars
    /\ WF_vars(Tick)
    /\ \A t \in 1..MaxFairThreads : FairThread(t)

\* ----------------------------------------------- transformer actions
\* An ERP file, read as json.load gives it (transformer.py 14-15).
InitTransform ==
    /\ pc = "file"
    /\ base_url = <<>>
    /\ Unrun
    /\ tokens = RATE_LIMIT /\ window_start = NoWindow /\ now = 0
    /\ NoThreads
    /\ erp_file \in TransformFiles
    /\ record_out = <<>>
    /\ result = <<>>
    /\ hash_in = <<>>
    /\ hash_out = <<>>

outsideTransform == <<taskVars, base_url, limiterVars, callVars, threadVars>>

\* transform_product is called with a record of the file.
TransformProduct ==
    /\ pc = "file"
    /\ \E i \in 1..Len(erp_file) :
        record_out' = [raw |-> erp_file[i], out |-> transform_product(erp_file[i])]
    /\ pc' = "record"
    /\ UNCHANGED <<erp_file, result, hash_in, hash_out, outsideTransform>>

\* load_and_transform is called with the file.
LoadAndTransform ==
    /\ pc = "file"
    /\ result' = load_and_transform(erp_file)
    /\ pc' = "loaded"
    /\ UNCHANGED <<erp_file, record_out, hash_in, hash_out, outsideTransform>>

NextTransform == TransformProduct \/ LoadAndTransform

SpecTransform == InitTransform /\ [][NextTransform]_vars

\* Two product dicts.
InitHash ==
    /\ pc = "dicts"
    /\ base_url = <<>>
    /\ Unrun
    /\ tokens = RATE_LIMIT /\ window_start = NoWindow /\ now = 0
    /\ NoThreads
    /\ erp_file = <<>>
    /\ record_out = <<>>
    /\ result = <<>>
    /\ hash_in \in HashDicts \X HashDicts
    /\ hash_out = <<>>

\* compute_hash is called with each of the two dicts.
ComputeHash ==
    /\ pc = "dicts"
    /\ hash_out' = <<HashOfDict(hash_in[1]), HashOfDict(hash_in[2])>>
    /\ pc' = "hashed"
    /\ UNCHANGED <<erp_file, record_out, result, hash_in, outsideTransform>>

NextHash == ComputeHash

SpecHash == InitHash /\ [][NextHash]_vars

\* ------------------------------------------------------------ claims
Failures == {"HttpError", "RuntimeError", "ValueError"}

\* The number of records of the run whose diagnostic is in `whats`.
Count(whats) == Cardinality({k \in 1..Len(log) : log[k].what \in whats})

\* The record the loop is at has a row whose fingerprint is the record's.
AtUnchangedRecord ==
    /\ pc = "loop"
    /\ idx <= Len(products)
    /\ \E row \in store :
        /\ row.sku = products[idx].sku
        /\ row.content_hash = compute_hash(products[idx])

\* C1: a record whose sku has a row holding the record's fresh fingerprint is
\* skipped: the step that handles it adds one to skipped and nothing to sent
\* or errors, leaves the table as it is and starts no send_product call, and
\* the run issues no HTTP request for a sku it skipped.
C1_SkipStep ==
    AtUnchangedRecord =>
        /\ skipped' = skipped + 1
        /\ sent' = sent /\ errors' = errors
        /\ store' = store
        /\ calls' = calls
        /\ pc' = "loop" /\ idx' = idx + 1

C1_NoRequestForSkipped ==
    /\ skipped = Count({"skipped"})
    /\ \A k \in 1..Len(log) :
        log[k].what = "skipped" => \A c \in calls : c.sku # log[k].sku

C1_UnchangedIsSkipped == [][C1_SkipStep]_vars /\ []C1_NoRequestForSkipped

C1_Witness ==
    /\ pc = "done"
    /\ \E k \in 1..Len(log) : log[k].what = "skipped"
    /\ calls # {}

\* The send_product call of the task ends with an exception in this step.
SendFails == pc = "inflight" /\ pc' = "loop" /\ outcome' \in Failures

\* C2: when send_product fails for a record, the table is left as it is (no
\* row is created, an existing row keeps its fingerprint and its flag) and
\* errors grows by one.
C2_FailStep ==
    SendFails =>
        /\ store' = store
        /\ errors' = errors + 1
        /\ sent' = sent /\ skipped' = skipped

C2_FailedRecordsKeepTheirRow ==
    /\ errors = Count(Failures)
    /\ \A k \in 1..Len(log) :
        log[k].what \in Failures =>
            /\ log[k].is_new => Get(store, log[k].sku) = {}
            /\ ~log[k].is_new =>
                   \E row \in store :
                       /\ row.sku = log[k].sku
                       /\ row.content_hash # compute_hash(products[k])

C2_FailureLeavesStore == [][C2_FailStep]_vars /\ []C2_FailedRecordsKeepTheirRow

C2_Witness ==
    /\ \E k \in 1..Len(log) : log[k].what = "HttpError" /\ ~log[k].is_new
    /\ \E k \in 1..Len(log) : log[k].what = "RuntimeError" /\ log[k].is_new

\* C3: a run over the data of the run before it, which ended without an
\* error, sends nothing: sent = 0, errors = 0, every product is skipped and no
\* HTTP request is issued.
C3_Idempotent ==
    unchanged_rerun =>
        /\ sent = 0 /\ errors = 0
        /\ calls = {}
        /\ pc \in {"loop", "done"}
        /\ pc = "done" => skipped = Len(products)

C3_Witness ==
    /\ unchanged_rerun
    /\ pc = "done"
    /\ Len(products) = MaxLen
    /\ \E row \in store : ~row.synced_as_new

\* C4: in a finished run whose records were all unseen and all sent, with one
\* send failing on a non-429 error status and every other send succeeding,
\* every record was handled and errors = 1, sent = N - 1, skipped = 0.
C4_OneFailure ==
    /\ \A k \in 1..Len(log) : log[k].is_new /\ log[k].what \in {"return", "HttpError"}
    /\ Count({"HttpError"}) = 1

C4_BatchResilience ==
    (pc = "done" /\ C4_OneFailure) =>
        /\ Len(log) = Len(products)
        /\ errors = 1
        /\ sent = Len(products) - 1
        /\ skipped = 0

C4_Witness ==
    /\ pc = "done"
    /\ C4_OneFailure
    /\ Len(products) = MaxLen
    /\ log[1].what = "HttpError"

\* C5: a run that was started never ends in an exception: it returns its
\* summary whatever the records and the responses are.
C5_RunNeverAborts == pc # "aborted"

\* The urls of the API below the configured base, without its trailing
\* separators.
CollectionUrl == <<"api", "/", "products", "/">>
ItemUrl(sku) == <<"api", "/", "products", "/", sku, "/">>

\* The request went where the row of its sku says.
C6_Routed(req) ==
    LET rows == Get(store, req.json.sku)
    IN  /\ rows = {} => req.method = "POST" /\ req.url = CollectionUrl
        /\ (rows # {} /\ \A row \in rows : row.content_hash # compute_hash(req.json))
               => req.method = "PATCH" /\ req.url = ItemUrl(req.json.sku)
        /\ \A row \in rows : row.content_hash # compute_hash(req.json)

\* C6: while a send_product call of the task is in progress, every request it
\* issued is a POST to {base}/products/ when the sku has no row and a PATCH to
\* {base}/products/{sku}/ when the sku has a row with another fingerprint, the
\* same for every attempt of the call, and {base} ends in no separator.
C6_Routing ==
    pc \in {"acquire", "request", "inflight"} =>
        \A k \in 1..Len(requests) :
            /\ C6_Routed(requests[k])
            /\ requests[k] = requests[1]
            /\ requests[k].json = products[idx]

C6_Witness ==
    /\ pc = "inflight"
    /\ Len(requests) = MAX_RETRIES
    /\ requests[MAX_RETRIES].method = "PATCH"
    /\ \E c \in calls : c.method = "POST"

\* The send_product call of the task returns a response in this step.
SendSucceeds == pc = "inflight" /\ pc' = "loop" /\ outcome' = "return"

\* C7: after a successful send the row of the sku holds the fingerprint of the
\* product sent and the is_new flag of the send, which is true exactly when
\* the sku had no row (also when the row held true before), and sent grows by
\* one.
C7_SaveStep ==
    SendSucceeds =>
        /\ Get(store', payload.sku) =
               {[sku |-> payload.sku, content_hash |-> compute_hash(payload),
                 synced_as_new |-> (Get(store, payload.sku) = {})]}
        /\ \A row \in store' : row.sku # payload.sku => row \in store
        /\ sent' = sent + 1
        /\ errors' = errors /\ skipped' = skipped

C7_SentRecordsHaveTheirRow ==
    /\ sent = Count({"return"})
    /\ \A k \in 1..Len(log) :
        log[k].what = "return" =>
            /\ Get(store, log[k].sku) =
                   {[sku |-> log[k].sku, content_hash |-> compute_hash(products[k]),
                     synced_as_new |-> log[k].is_new]}
            /\ \E c \in calls :
                   /\ c.sku = log[k].sku
                   /\ c.method = IF log[k].is_new THEN "POST" ELSE "PATCH"

C7_SuccessIsSaved == [][C7_SaveStep]_vars /\ []C7_SentRecordsHaveTheirRow

C7_Witness ==
    /\ \E k \in 1..Len(log) : log[k].what = "return" /\ ~log[k].is_new
    /\ \E k \in 1..Len(log) : log[k].what = "return" /\ log[k].is_new

AllThrottled == \A k \in 1..Len(responses) : responses[k].status = 429

\* C8: a send_product call makes 3 attempts at most, the next one only after a
\* 429 response; a successful response ends the call, which returns it; after
\* three 429 responses the call raises the rate-limit error and makes no 4th
\* attempt.
C8_RetryPolicy ==
    /\ Len(requests) <= 3
    /\ \A k \in 2..Len(requests) : responses[k - 1].status = 429
    /\ \A k \in 1..Len(responses) :
        responses[k].status < 400 =>
            k = Len(responses) /\ outcome = "return" /\ pc = "ready"
    /\ (Len(responses) = 3 /\ AllThrottled) =>
            outcome = "RuntimeError" /\ pc = "ready" /\ Len(requests) = 3

\* An unsuccessful status other than 429.
ErrorStatus(status) == status >= 400 /\ status < 600 /\ status # 429

\* C9: a response with an unsuccessful status other than 429 ends the call
\* with HttpError at once, whichever attempt it answers: no request, no
\* acquire and no sleep follows it.
C9_HttpErrorAtOnce ==
    \A k \in 1..Len(responses) :
        ErrorStatus(responses[k].status) =>
            /\ k = Len(responses)
            /\ outcome = "HttpError"
            /\ pc = "ready"
            /\ Len(requests) = k
            /\ acquires = k
            /\ Len(waits) = k - 1

C9_Witness ==
    /\ outcome = "HttpError"
    /\ Len(responses) = MAX_RETRIES
    /\ responses[1].status = 429

\* No 429 response of the call carries a Retry-After header that is a number.
NoUsableRetryAfter ==
    \A k \in 1..Len(responses) :
        responses[k].status = 429 => responses[k].retry_after \in {Null, Str("abc")}

\* C10: in a call whose 429 responses carry no usable Retry-After header the
\* sleep after the k-th 429 response is 2^(k-1) seconds, 1.0 then 2.0, and a
\* new call starts again from 1.0.
C10_ExponentialBackoff ==
    /\ NoUsableRetryAfter =>
           \A k \in 1..Len(waits) : waits[k] = (2 ^ (k - 1)) * TicksPerUnit
    /\ (outcome = "pending" /\ responses = <<>>) => backoff = 1 * TicksPerUnit

C10_Witness ==
    /\ NoUsableRetryAfter
    /\ waits = <<1 * TicksPerUnit, 2 * TicksPerUnit>>
    /\ outcome = "return"
    /\ Cardinality(calls) > 1

\* The number a Retry-After header reads as, in seconds.
NumericHeader(header) == header \in {Str("0"), Str("3"), Str("-1")}

HeaderSeconds(header) ==
    CASE header = Str("0") -> 0
      [] header = Str("3") -> 3
      [] header = Str("-1") -> 0 - 1
      [] OTHER -> 0

\* A step of the call that sleeps after a 429 response.
C11_WaitStep ==
    Len(waits') = Len(waits) + 1 =>
        LET resp == responses'[Len(responses')]
            wait == waits'[Len(waits')]
        IN  /\ Len(responses') = Len(responses) + 1
            /\ resp.status = 429
            /\ wait = IF NumericHeader(resp.retry_after)
                      THEN HeaderSeconds(resp.retry_after) * TicksPerUnit
                      ELSE backoff

\* A 429 response with Retry-After 0 is followed by one sleep of 0 and, when an
\* attempt is left, by the next attempt.
C11_ZeroWait ==
    \A k \in 1..Len(responses) :
        (responses[k].status = 429 /\ responses[k].retry_after = Str("0")) =>
            /\ Len(waits) >= k
            /\ waits[k] = 0
            /\ k < MAX_RETRIES =>
                   \/ Len(requests) > k
                   \/ attempt = k + 1 /\ pc \in {"acquire", "request"}

\* C11: the sleep that follows a 429 response is as long as the Retry-After
\* header says when the header is there and reads as a number, and as long as
\* the backoff of the call at that moment when the header is missing or is no
\* number; Retry-After 0 gives one sleep of 0 and then the retry.
C11_RetryAfterWait == [][C11_WaitStep]_vars /\ []C11_ZeroWait

C11_Witness ==
    /\ Len(waits) = 2
    /\ responses[1].retry_after = Str("0") /\ waits[1] = 0
    /\ responses[2].retry_after = Null /\ waits[2] = 2 * TicksPerUnit
    /\ Len(requests) = 3

\* C12: a send_product call ends in one of three ways only: it returns the
\* response, it raises the rate-limit error after 3 throttled attempts, or it
\* raises HttpError on an unsuccessful status other than 429.
C12_OutcomesExhaustive ==
    /\ outcome \in {"none", "pending", "return", "RuntimeError", "HttpError"}
    /\ outcome = "RuntimeError" => Len(responses) = 3 /\ AllThrottled
    /\ outcome = "HttpError" => ErrorStatus(responses[Len(responses)].status)

\* C20: every HTTP attempt of a send_product call comes right after an
\* acquire of its own on the limiter of the client: the call has made as many
\* acquire calls as attempts, one more while the attempt that the last acquire
\* let through is not out yet, and no request goes out from any other place.
C20_AcquireStep ==
    Len(requests') = Len(requests) + 1 =>
        /\ pc = "request"
        /\ acquires = Len(requests) + 1
        /\ UNCHANGED <<acquires, limiterVars>>

C20_OneAcquirePerAttempt ==
    acquires = Len(requests) + (IF pc = "request" THEN 1 ELSE 0)

C20_AcquireBeforeAttempt == [][C20_AcquireStep]_vars /\ []C20_OneAcquirePerAttempt

C20_Witness ==
    /\ Len(requests) = MAX_RETRIES
    /\ acquires = MAX_RETRIES
    /\ outcome = "return"
    /\ tokens < RATE_LIMIT - 1

\* The acquire calls that returned in the first n ticks of `returned`.
RECURSIVE Returned(_)
Returned(n) == IF n = 0 THEN 0 ELSE returned[n] + Returned(n - 1)

\* The acquire calls that returned in the one second that ends with the tick
\* of the clock.
ReturnedInUnit == Returned(TicksPerUnit)

\* The acquire calls that returned since the window start.
ReturnedInWindow == immediate + (IF opened_suspended THEN 1 ELSE 0)

\* C13, as stated: in no interval of one second, wherever it starts, do more
\* than `rate` acquire calls return.
C13_RollingLimit == ReturnedInUnit <= _rate

\* C13, amended: between one window start of the limiter and the next no more
\* than `rate` acquire calls return, and in an interval of one second that
\* lies across two windows no more than twice `rate`.
C13_WindowLimit ==
    /\ ReturnedInWindow <= _rate
    /\ ReturnedInUnit <= 2 * _rate

C13_Witness ==
    /\ ReturnedInUnit = 2 * _rate
    /\ ReturnedInWindow = _rate

\* C14: with one caller or several the token count stays within 0..rate and
\* no token is spent twice: the calls that returned without sleeping since the
\* window start are rate minus the tokens left, minus the one token that the
\* caller who opened the window after its sleep kept for itself.
C14_TokensAccounted ==
    /\ tokens \in 0.._rate
    /\ immediate = _rate - tokens - (IF opened_suspended THEN 1 ELSE 0)

C14_Witness ==
    /\ Len(threads) > 1
    /\ _rate > 1
    /\ opened_suspended
    /\ tokens = 0
    /\ \E t \in DOMAIN threads : threads[t].pc = "sleeping"
    /\ \E t \in DOMAIN threads : threads[t].pc = "blocked"

\* C15: while a caller of acquire sleeps until the window rolls over, no
\* thread holds the lock, so that a second caller can go through its own test
\* of the tokens during the sleep.
C15_SleepsWithoutLock ==
    (\E t \in DOMAIN threads : threads[t].pc = "sleeping") => lock = NoThread

\* The limiter has one caller.
SingleCaller == Len(threads) = 1

\* The one caller tests the tokens in this step.
C16_Checks == threads[1].pc = "locked" /\ threads'[1].pc \in {"spend", "sleeping"}

C16_Suspends == threads'[1].pc = "sleeping"

\* What C16 says of every rate: the first `rate` calls of a new window are
\* not suspended, the call after them is when the window is younger than one
\* second, for the rest of that second, and opens a window with rate - 1
\* tokens when its sleep is over; a call is suspended exactly when the window
\* is younger than one second and has no token.
C16_Rule ==
    /\ C16_Checks =>
        /\ C16_Suspends <=>
               (/\ window_start # NoWindow
                /\ now - window_start < TicksPerUnit
                /\ tokens = 0)
        /\ C16_Suspends =>
               threads'[1].wake_at - now = TicksPerUnit - (now - window_start)
        /\ (window_start = NoWindow \/ (~opened_suspended /\ immediate < _rate)) =>
               ~C16_Suspends
        /\ (/\ ~opened_suspended /\ immediate = _rate
            /\ window_start # NoWindow /\ now - window_start < TicksPerUnit) =>
               C16_Suspends
    /\ (threads[1].pc = "sleeping" /\ threads'[1].pc = "idle") =>
        /\ now >= threads[1].wake_at
        /\ window_start' = now'
        /\ tokens' = _rate - 1

\* The call made right after the window was opened by the caller that had
\* slept.
C16_CallAfterReset ==
    C16_Checks /\ opened_suspended /\ immediate = 0 /\ now = window_start

\* C16, as stated: for a single caller and every rate the rule above holds and
\* the call made right after the reset is not suspended.
C16_SingleCaller ==
    [][SingleCaller => (C16_Rule /\ (C16_CallAfterReset => ~C16_Suspends))]_vars

\* C16, amended: the call made right after the reset is not suspended when
\* the rate is 2 or more; with rate 1 the new window holds no token and that
\* call is suspended as well.
C16_SingleCallerFromRate2 ==
    [][SingleCaller =>
        /\ C16_Rule
        /\ C16_CallAfterReset => (C16_Suspends <=> _rate = 1)]_vars

C16_Witness ==
    /\ SingleCaller
    /\ _rate > 1
    /\ opened_suspended
    /\ immediate = 1
    /\ now = window_start

\* The place of the first record of the file with the id.
FirstIndex(id) ==
    CHOOSE i \in 1..Len(erp_file) :
        /\ erp_file[i].id = id
        /\ \A j \in 1..(i - 1) : erp_file[j].id # id

\* The record has no price or a negative one.
InvalidPrice(raw) ==
    raw.price_vat_excl = Null \/ (raw.price_vat_excl.t = "num" /\ raw.price_vat_excl.n < 0)

\* The products load_and_transform returned for the id.
OutputsOf(id) == {k \in 1..Len(result.result) : result.result[k].sku = id}

\* C17: load_and_transform returns one product at most for an id, the product
\* is what transform_product makes of the first record with the id, and an id
\* whose first record has no price or a negative one gets no product, a valid
\* record with the same id further down the file or not.
C17_FirstOccurrenceWins ==
    pc = "loaded" =>
        /\ ~result.raised
        /\ \A k \in 1..Len(result.result) :
               \E i \in 1..Len(erp_file) : erp_file[i].id = result.result[k].sku
        /\ \A id \in {erp_file[i].id : i \in 1..Len(erp_file)} :
            LET first == erp_file[FirstIndex(id)]
            IN  /\ Cardinality(OutputsOf(id)) <= 1
                /\ IF InvalidPrice(first)
                   THEN OutputsOf(id) = {}
                   ELSE \E k \in OutputsOf(id) :
                            result.result[k] = transform_product(first).product

C17_Witness ==
    /\ pc = "loaded"
    /\ Len(erp_file) = 3
    /\ erp_file[1].id = erp_file[3].id
    /\ InvalidPrice(erp_file[1]) /\ ~InvalidPrice(erp_file[3])
    /\ erp_file[2].id # erp_file[1].id
    /\ Len(result.result) = 1

\* C18: a product that transform_product returns has a price that is 0 or
\* more and a stock that is a whole number, 0 or more, whatever the location
\* quantities of the record are; a record with no price or a negative one
\* gets no product.
C18_PriceAndStockNonNegative ==
    pc = "record" =>
        /\ record_out.out.kind \in {"ok", "none"}
        /\ record_out.out.kind = "ok" =>
               /\ record_out.out.product.price \in Nat
               /\ record_out.out.product.stock \in Nat
        /\ InvalidPrice(record_out.raw) <=> record_out.out.kind = "none"

\* The keys of the two dicts whose values are not the same.
DifferingKeys(a, b) ==
    {key \in {a[k][1] : k \in 1..Len(a)} :
        \E k \in 1..Len(a), l \in 1..Len(b) :
            a[k][1] = key /\ b[l][1] = key /\ a[k][2] # b[l][2]}

\* C19: compute_hash gives one digest for dicts with the same keys and values,
\* in whatever order they were filled, and two digests for products that
\* differ in the value of one of the fields sku, title, price, stock, color.
C19_HashOfTheMapping ==
    pc = "hashed" =>
        /\ DifferingKeys(hash_in[1], hash_in[2]) = {} => hash_out[1] = hash_out[2]
        /\ Cardinality(DifferingKeys(hash_in[1], hash_in[2])) = 1 => hash_out[1] # hash_out[2]

C19_Witness ==
    /\ pc = "hashed"
    /\ hash_in[1] # hash_in[2]
    /\ DifferingKeys(hash_in[1], hash_in[2]) = {}
    /\ hash_out[1] = hash_out[2]

\* No 429 response of the call carries a Retry-After header.
NoRetryAfter ==
    \A k \in 1..Len(responses) :
        responses[k].status = 429 => responses[k].retry_after = Null

\* The sum of the first n sleeps of the call.
RECURSIVE TotalWait(_)
TotalWait(n) == IF n = 0 THEN 0 ELSE waits[n] + TotalWait(n - 1)

\* C21: in a call whose 429 responses carry no Retry-After header the sleeps
\* add up to 3 seconds at most: a sleep comes between two attempts only, so
\* that a call that uses its 3 attempts sleeps twice and not after the last
\* 429 response.
C21_BackoffTotal ==
    NoRetryAfter =>
        /\ TotalWait(Len(waits)) <= 3 * TicksPerUnit
        /\ Len(waits) <= MAX_RETRIES - 1
        /\ outcome = "RuntimeError" => Len(waits) = MAX_RETRIES - 1

\* A step in which the call receives a 429 response and sleeps.
C28_ThrottledStep ==
    /\ Len(responses') = Len(responses) + 1
    /\ Len(waits') = Len(waits) + 1

\* C28: the backoff of a call doubles with every 429 response it sleeps on,
\* also when the sleep was as long as the Retry-After header said: after a
\* first 429 with a numeric Retry-After a second 429 with no header is slept
\* on for 2 seconds, not 1.
C28_DoublesStep == C28_ThrottledStep => backoff' = 2 * backoff

C28_SecondWait ==
    (/\ Len(waits) >= 2
     /\ responses[1].retry_after \in {Str("0"), Str("3")}
     /\ responses[2].retry_after = Null) => waits[2] = 2 * TicksPerUnit

C28_DoublesAfterRetryAfter == [][C28_DoublesStep]_vars /\ []C28_SecondWait

C28_Witness ==
    /\ Len(waits) = 2
    /\ responses[1].retry_after = Str("3") /\ waits[1] = 3 * TicksPerUnit
    /\ responses[2].retry_after = Null /\ waits[2] = 2 * TicksPerUnit
    /\ outcome = "return"

\* The thread is between taking the lock and returning, and moves in the step.
MovesInAcquire(t) ==
    threads[t].pc \in {"locked", "spend", "sleeping"} /\ threads'[t] # threads[t]

\* The thread reads the clock and tests the window and the tokens in the step.
ChecksWindow(t) == threads[t].pc = "locked" /\ threads'[t].pc \in {"spend", "sleeping"}

\* The thread wakes from its sleep and returns in the step.
WakesUp(t) == threads[t].pc = "sleeping" /\ threads'[t].pc = "idle"

\* There is no window or the window is one second old.
WindowDue == window_start = NoWindow \/ now - window_start >= TicksPerUnit

\* C22: the window start and the token count change inside acquire only: time
\* that passes, a window that grows old with no call included, leaves both as
\* they are; the next acquire that finds no window or a window one second old
\* starts a window with all the tokens, spends one and returns without
\* sleeping.
C22_Step ==
    /\ (\A t \in DOMAIN threads : ~MovesInAcquire(t)) =>
           UNCHANGED <<tokens, window_start>>
    /\ \A t \in DOMAIN threads :
        /\ (ChecksWindow(t) /\ WindowDue) =>
               /\ window_start' # NoWindow
               /\ now' = window_start'
               /\ tokens' = _rate
               /\ threads'[t].pc = "spend"
        /\ (threads[t].pc = "spend" /\ threads'[t] # threads[t]) =>
               /\ threads'[t].pc = "idle"
               /\ tokens' = tokens - 1
               /\ UNCHANGED window_start
               /\ returned'[1] = returned[1] + 1

C22_OnlyAcquireChanges == [][C22_Step]_vars

C22_Witness ==
    /\ window_start # NoWindow
    /\ now - window_start >= TicksPerUnit
    /\ tokens \in 1..(_rate - 1)
    /\ ReturnedInUnit = 0
    /\ \A t \in DOMAIN threads : threads[t].pc = "idle"

\* An acquire call returns in the step.
ReturnStep == returned'[1] = returned[1] + 1

\* C25: between one window start and the next no more than `rate` acquire
\* calls return, however the callers interleave; the caller that slept is
\* counted in the window it opens when it wakes, which has rate - 1 tokens
\* for that reason.
C25_Step ==
    ReturnStep =>
        /\ ReturnedInWindow' <= _rate
        /\ IF \E t \in DOMAIN threads : WakesUp(t)
           THEN /\ ReturnedInWindow' = 1
                /\ opened_suspended'
                /\ tokens' = _rate - 1
           ELSE ReturnedInWindow' = ReturnedInWindow + 1

C25_FixedWindowQuota == [][C25_Step]_vars

C25_Witness ==
    /\ opened_suspended
    /\ ReturnedInWindow = _rate
    /\ _rate = RATE_LIMIT
    /\ Len(threads) = MaxThreads
    /\ tokens = 0

\* A window starts in the step: a caller wakes from its sleep, or a caller
\* that tests the window opens it anew.
OpensWindow ==
    \E t \in DOMAIN threads :
        \/ WakesUp(t)
        \/ /\ ChecksWindow(t)
           /\ window_start' # NoWindow /\ immediate' = 0 /\ ~opened_suspended'
           /\ ~(window_start # NoWindow /\ immediate = 0 /\ ~opened_suspended)

\* C30: a window starts one second or more after the window before it,
\* however the callers interleave, the window that a caller opens when it
\* wakes from its sleep included.
C30_Step == OpensWindow => WindowDue

C30_WindowSpacing == [][C30_Step]_vars

C30_Witness ==
    /\ opened_suspended
    /\ now = window_start
    /\ immediate = 0
    /\ Len(threads) > 1
    /\ \E t \in DOMAIN threads : threads[t].pc = "locked"

\* The thread is inside an acquire call.
Calling(t) == t \in DOMAIN threads /\ threads[t].pc # "idle"

NotCalling(t) == t \in DOMAIN threads /\ threads[t].pc = "idle"

\* No sleep is asked to last more than one second.
C23_SleepAtMostOneUnit ==
    \A t \in DOMAIN threads :
        threads[t].pc = "sleeping" => threads[t].wake_at - now <= TicksPerUnit

InCall == pc \in {"acquire", "request", "inflight"}

\* The records of the run that were handled, in the order of `products`.
C24_InOrder ==
    /\ Len(log) = idx - 1
    /\ \A k \in 1..Len(log) : k <= Len(products) /\ log[k].sku = products[k].sku
    /\ InCall => idx <= Len(products) /\ payload = products[idx]

\* One request at most has no response yet, and it is the one the call waits
\* for.
C24_OneInFlight ==
    InCall =>
        Len(requests) - Len(responses) = (IF pc = "inflight" THEN 1 ELSE 0)

\* The row of every earlier record of the run that was sent holds the
\* record's fingerprint while the record the loop is at is being sent.
C24_EarlierWritesDone ==
    InCall =>
        \A j \in 1..(idx - 1) :
            log[j].what = "return" =>
                \E row \in Get(store, products[j].sku) :
                    row.content_hash = compute_hash(products[j])

\* C24: the records of a run are handled one after another in the order
\* load_and_transform gave them, one request at most is in flight, and when a
\* request for a record goes out the row of every earlier record of the run
\* whose send succeeded is written already.
C24_Sequential == C24_InOrder /\ C24_OneInFlight /\ C24_EarlierWritesDone

C24_Witness ==
    /\ pc = "inflight" /\ attempt = 1 /\ Len(requests) = 1
    /\ idx = 3
    /\ log[1].what = "return" /\ log[2].what = "HttpError"

\* ------------------------------------------------------------ C26
\* The positions of a file whose record is dropped: the id was read before,
\* or transform_product gives no product for the record.
DroppedIn(raw_list) ==
    {k \in 1..Len(raw_list) :
        \/ \E j \in 1..(k - 1) : raw_list[j].id = raw_list[k].id
        \/ transform_product(raw_list[k]).kind # "ok"}

\* Every ERP file with the list load_and_transform makes of it, the number of
\* its records that are dropped, and the products of the records that are the
\* first of their id and have a usable price.
LoadedFiles ==
    {[loaded |-> load_and_transform(raw_list),
      records |-> Len(raw_list),
      dropped |-> Cardinality(DroppedIn(raw_list)),
      firsts |-> {transform_product(raw_list[k]).product :
                     k \in {i \in 1..Len(raw_list) :
                               /\ \A j \in 1..(i - 1) : raw_list[j].id # raw_list[i].id
                               /\ transform_product(raw_list[i]).kind = "ok"}},
      invalid |-> \E k \in DroppedIn(raw_list) :
                     transform_product(raw_list[k]).kind = "none"] :
        raw_list \in ErpFiles}

\* The ERP files that load_and_transform turns into the list `prods`.
FilesOf(prods) ==
    {file \in LoadedFiles : file.loaded = [raised |-> FALSE, result |-> prods]}

Handled == sent + skipped + errors

\* C26: at the end of a run sent + skipped + errors is the number of products
\* load_and_transform returned, every product counts in one of the three (it
\* was sent, skipped or failed), and the records of the file that were dropped
\* as duplicates or as invalid count in none.
C26_CounterPartition ==
    pc = "done" =>
        /\ Handled = Len(products)
        /\ Len(log) = Len(products)
        /\ \A k \in 1..Len(log) :
               /\ log[k].sku = products[k].sku
               /\ log[k].what \in {"return", "skipped"} \cup Failures
        /\ sent = Count({"return"})
        /\ skipped = Count({"skipped"})
        /\ errors = Count(Failures)
        /\ \A file \in FilesOf(products) : Handled = file.records - file.dropped

C26_Witness ==
    /\ pc = "done"
    /\ sent = 1 /\ skipped = 0 /\ errors = 1
    /\ \E file \in FilesOf(products) : file.dropped = 1 /\ file.invalid
    /\ \E file \in FilesOf(products) : file.dropped = 1 /\ ~file.invalid

\* ------------------------------------------------------------ C27
\* The skus that have a row.
RowSkus(table) == {row.sku : row \in table}

\* A request goes out.
Issues == pc = "request" /\ pc' = "inflight"

C27_Step ==
    /\ RowSkus(store) \subseteq RowSkus(store')
    /\ RowSkus(store') # RowSkus(store) =>
           /\ SendSucceeds
           /\ RowSkus(store') = RowSkus(store) \cup {payload.sku}
    /\ Issues /\ method = "POST" => payload.sku \notin RowSkus(store)
    /\ SendSucceeds /\ method = "POST" =>
           /\ payload.sku \notin RowSkus(store)
           /\ payload.sku \in RowSkus(store')

\* C27: over runs made one after another the set of skus that have a row
\* never shrinks, a sku gets its row only when a send for it succeeds, and no
\* POST is issued for a sku that has a row, so that a sku is created
\* successfully once at most.
C27_CreatedOnce == [][C27_Step]_vars

C27_Witness ==
    /\ pc = "inflight" /\ method = "PATCH"
    /\ \E row \in Get(store, payload.sku) : row.synced_as_new
    /\ Cardinality(RowSkus(store)) = 2
    /\ Len(log) = 0

\* ------------------------------------------------------------ C29
\* A run starts.
RunStarts == pc \in {"idle", "done", "aborted"} /\ pc' \in {"loop", "aborted"}

\* The loop takes up the record it is at.
TakesUp == pc = "loop" /\ pc' \in {"loop", "acquire"}

\* The ERP files the run that starts in this step can have read.
FilesRead ==
    {file \in LoadedFiles :
        file.loaded = [raised |-> (pc' = "aborted"), result |-> products']}

\* A run that starts over a file which still holds the record of a product
\* whose last send failed has the product among its products.
C29_ResentStep ==
    RunStarts =>
        \A o \in owed : \A file \in FilesRead :
            o.product \in file.firsts =>
                \E k \in 1..Len(products') : products'[k] = o.product

\* A product whose last send failed is sent when the loop takes it up, as a
\* creation when the failed send was one and as an update otherwise.
C29_SameKindStep ==
    TakesUp =>
        \A o \in owed :
            o.product = products[idx] =>
                /\ pc' = "acquire"
                /\ payload' = o.product
                /\ is_new' = o.is_new
                /\ method' = Method(o.is_new)

\* A send that succeeds leaves the fingerprint of the product in the row of
\* the sku, no other step changes the rows of a sku, and a product whose
\* fingerprint is in the row of its sku is skipped.
C29_SettledStep ==
    /\ SendSucceeds =>
           /\ Get(store', payload.sku) # {}
           /\ \A row \in Get(store', payload.sku) :
                  row.content_hash = compute_hash(payload)
           /\ \A o \in owed' : o.product.sku # payload.sku
    /\ \A sku \in Skus :
           Get(store', sku) # Get(store, sku) => SendSucceeds /\ payload.sku = sku
    /\ TakesUp /\ (\E row \in Get(store, products[idx].sku) :
                       row.content_hash = compute_hash(products[idx])) =>
           /\ pc' = "loop"
           /\ skipped' = skipped + 1
           /\ requests' = requests

\* C29: a record whose source data stays as it is and whose send failed is
\* sent again in every run until a send succeeds, each time as the kind of
\* operation of the first send; from that success on the row of its sku holds
\* its fingerprint and every run skips it.
C29_Convergence == [][C29_ResentStep /\ C29_SameKindStep /\ C29_SettledStep]_vars

====
